---- MODULE Spec2Model ----
(***************************************************************************)
(* Mint Analytics front end: the App shell, the FileUpload loader, the     *)
(* DataTable page view with its SlicerPanel filters and ExportButton, and  *)
(* the query / export service they call.  The service itself is not part   *)
(* of the sources at hand; it is modelled from the design document.        *)
(***************************************************************************)
EXTENDS Integers, Sequences, FiniteSets, TLC

VARIABLES
    appData,        \* App: data (the DataResponse of the last load, or Null)
    appLoading,     \* App: loading
    appError,       \* App: error (Null or the message's kind)
    inst,           \* which DataTable instance is (or was last) mounted
    data,           \* DataTable: data (the displayed rows)
    currentPage,    \* DataTable: currentPage
    pageSize,       \* DataTable: pageSize
    loading,        \* DataTable: loading
    filters,        \* DataTable: filters (the view's FilterSpec)
    filteredRows,   \* DataTable: filteredRows
    showOptions,    \* ExportButton: showOptions
    exportLimit,    \* ExportButton: exportLimit
    customLimit,    \* ExportButton: customLimit (the text of the input)
    showWarning,    \* ExportButton: showWarning
    serverDs,       \* service: the active dataset (Null before any load)
    loads,          \* handleLoadFile calls in progress
    fetches,        \* loadPage calls in progress
    exports,        \* export calls in progress and finished
    nLoads, nFetches, nExports,   \* how many of each were started
    shown,          \* history: which fetch set the displayed rows last
    availableValues,  \* ColumnSlicer: availableValues, by column
    lookups         \* loadColumnValues calls in progress

vars == <<appData, appLoading, appError, inst, data, currentPage, pageSize,
          loading, filters, filteredRows, showOptions, exportLimit,
          customLimit, showWarning, serverDs, loads, fetches, exports,
          nLoads, nFetches, nExports, shown, availableValues, lookups>>

appVars    == <<appData, appLoading, appError>>
tableVars  == <<data, currentPage, pageSize, loading, filters, filteredRows>>
buttonVars == <<showOptions, exportLimit, customLimit, showWarning>>
slicerVars == <<availableValues, lookups>>

Null == "null"

\* ---------------------------------------------------------------- bounds
MaxLoads    == 1
MaxFetches  == 2
MaxExports  == 1
MaxReloads  == 2

\* ------------------------------------------------------ program constants
DefaultPageSize  == 100
InitialLimit     == 1000
EXCEL_MAX_ROWS   == 1048575
PageSizes        == {50, 100, 500, 1000}

Min(a, b) == IF a <= b THEN a ELSE b
Max(a, b) == IF a >= b THEN a ELSE b
Range(s)  == {s[i] : i \in DOMAIN s}

\* ------------------------------------------------------------- datasets
\* The parquet files the loader can be pointed at, and their row counts.
SmallPaths == {"A", "B"}
BigPaths   == {"M", "N", "L"}
DatasetSize(d) ==
    CASE d = "A" -> 120
      [] d = "B" -> 70
      [] d = "M" -> 1048575
      [] d = "N" -> 1048576
      [] d = "L" -> 2000000
      [] d = "S" -> 80
      [] d = "W" -> 90

\* Every file has the columns region and kind but S, which has region only.
\* The column kind has two values in every file but W, where it has three.
Schema(d) == IF d = "S" THEN {"region"} ELSE {"region", "kind"}

\* A row is <<dataset, position>>; its cells follow from the position.
RowValue(row, col) ==
    CASE col = "region" -> IF row[2] % 2 = 1 THEN "east" ELSE "west"
      [] col = "kind"   -> IF row[1] = "B"
                           THEN IF row[2] % 3 = 0 THEN "d" ELSE "c"
                           ELSE IF row[2] % 3 = 0 THEN "b"
                           ELSE IF row[1] = "W" /\ row[2] % 3 = 2 THEN "e"
                           ELSE "a"

NoFilters == [c \in {} |-> <<>>]

\* ------------------------------------------------ query planner (design)
\* A predicate that joins the clauses of the columns with "or".
SatisfiesAny(row, F) ==
    DOMAIN F = {} \/ \E c \in DOMAIN F : RowValue(row, c) \in Range(F[c])

Satisfies(row, F) == \A c \in DOMAIN F : RowValue(row, c) \in Range(F[c])

InvalidFilterColumn(d, F) == \E c \in DOMAIN F : c \notin Schema(d)

\* The cells repeat with the position modulo Period, so the matches of a
\* FilterSpec are found period by period, in the dataset's order.
Period == 2 * 3

PeriodMatches(d, F) ==
    SelectSeq([p \in 1..Period |-> p], LAMBDA p : Satisfies(<<d, p>>, F))

\* The distinct values of a column of d (every value occurs within a period).
ColumnValues(d, col) ==
    {RowValue(<<d, p>>, col) : p \in 1..Min(Period, DatasetSize(d))}

\* The values of the cells, in the order the catalog lists them.
ValueOrder == <<"a", "b", "c", "d", "e", "east", "west">>
SortedValues(S) == SelectSeq(ValueOrder, LAMBDA v : v \in S)

\* The most values a lookup returns.
ValuesCap == 2

\* A catalog whose count is the number of values it returns.
ValuesForCountsReturned(d, col) ==
    LET all  == SortedValues(ColumnValues(d, col))
        kept == SubSeq(all, 1, Min(ValuesCap, Len(all)))
    IN  [values |-> Range(kept), count |-> Len(kept)]

\* values_for(column): the first ValuesCap distinct values, and the number
\* of distinct values there are.
ValuesFor(d, col) ==
    LET all  == SortedValues(ColumnValues(d, col))
        kept == SubSeq(all, 1, Min(ValuesCap, Len(all)))
    IN  [values |-> Range(kept), count |-> Len(all)]

\* filtered_rows: the exact number of matches among all rows of d
FilteredRowsOf(d, F) ==
    LET P == PeriodMatches(d, F)
    IN  (DatasetSize(d) \div Period) * Len(P)
        + Cardinality({i \in DOMAIN P : P[i] <= DatasetSize(d) % Period})

\* position of the k-th match, counting from 1, P being the matches of a period
NthMatch(P, k) == Period * ((k - 1) \div Len(P)) + P[((k - 1) % Len(P)) + 1]

Clamp(x, lo, hi) == Max(lo, Min(x, hi))

\* An evaluate that emits the first matches whatever the offset.
EvaluateNoSkip(d, F, offset, limit) ==
    LET fr  == FilteredRowsOf(d, F)
        off == Clamp(offset, 0, fr)
        n   == Clamp(limit, 0, fr - off)
    IN  [rows |-> [ds |-> d, F |-> F, off |-> 0, n |-> n],
         total_rows    |-> DatasetSize(d),
         filtered_rows |-> fr]

\* evaluate(dataset, filters, window): skip offset matches, emit up to limit.
Evaluate(d, F, offset, limit) ==
    LET fr  == FilteredRowsOf(d, F)
        off == Clamp(offset, 0, fr)
        n   == Clamp(limit, 0, fr - off)
    IN  [rows |-> [ds |-> d, F |-> F, off |-> off, n |-> n],
         total_rows    |-> DatasetSize(d),
         filtered_rows |-> fr]

\* A list of rows is held as the window it is: the n matches of F in ds that
\* follow the first off ones.  RowsOf spells the rows out.
NoRows == [ds |-> Null, F |-> NoFilters, off |-> 0, n |-> 0]
RowsOf(w) ==
    [k \in 1..w.n |-> <<w.ds, NthMatch(PeriodMatches(w.ds, w.F), w.off + k)>>]

\* GET /data: the unfiltered window the loader asks for after a load.
GetData(d, limit, offset) ==
    LET r == Evaluate(d, NoFilters, offset, limit)
    IN  [data |-> r.rows, columns |-> Schema(d), total_rows |-> r.total_rows]

\* --------------------------------------------------------- text and numbers
\* Text typed into an input is a sequence of one-character strings.
DigitChars == {"0", "1", "2", "3", "4", "5", "6", "7", "8", "9"}
DigitVal(c) ==
    CASE c = "0" -> 0 [] c = "1" -> 1 [] c = "2" -> 2 [] c = "3" -> 3
      [] c = "4" -> 4 [] c = "5" -> 5 [] c = "6" -> 6 [] c = "7" -> 7
      [] c = "8" -> 8 [] c = "9" -> 9

RECURSIVE ParseDigits(_, _, _)
ParseDigits(s, i, acc) ==
    IF i > Len(s) \/ s[i] \notin DigitChars
    THEN acc
    ELSE ParseDigits(s, i + 1, acc * 10 + DigitVal(s[i]))

\* parseInt: optional sign, then the leading digits; <<>> stands for NaN.
ParseInt(s) ==
    LET signed == Len(s) > 0 /\ s[1] \in {"-", "+"}
        start  == IF signed THEN 2 ELSE 1
    IN  IF start > Len(s) \/ s[start] \notin DigitChars
        THEN <<>>
        ELSE IF signed /\ s[1] = "-"
             THEN <<0 - ParseDigits(s, start, 0)>>
             ELSE <<ParseDigits(s, start, 0)>>

\* The values of the "rows to export" radio group.
LimitAll     == <<"a", "l", "l">>
LimitCustom  == <<"c", "u", "s", "t", "o", "m">>
LimitPresets == {<<"1", "0", "0", "0", "0">>,
                 <<"1", "0", "0", "0", "0", "0">>,
                 <<"1", "0", "0", "0", "0", "0", "0">>}
ExportLimits == {LimitAll, LimitCustom} \cup LimitPresets

\* Texts a user can leave in the custom-limit field.
CustomInputs == {<<>>, <<"0">>, <<"-", "5">>,
                 <<"1", "0", "4", "8", "5", "7", "5">>,
                 <<"1", "0", "4", "8", "5", "7", "6">>,
                 <<"2", "0", "0", "0", "0", "0", "0">>}

\* ------------------------------------------------------------ App shell
HasData == appData # <<>>
Props   == appData[1]
Mounted == HasData /\ ~appLoading

NoneShown == [id |-> 0, latest |-> 0]

\* State of a DataTable (and its ExportButton) that is not rendered.
Unmounted ==
    /\ data' = NoRows
    /\ currentPage' = 1
    /\ pageSize' = DefaultPageSize
    /\ loading' = FALSE
    /\ filters' = NoFilters
    /\ filteredRows' = 0
    /\ showOptions' = FALSE
    /\ exportLimit' = LimitAll
    /\ customLimit' = <<>>
    /\ showWarning' = FALSE
    /\ shown' = NoneShown

\* useState initial values of a DataTable mounted with the props p.
MountDataTable(p) ==
    /\ data' = p.data
    /\ currentPage' = 1
    /\ pageSize' = DefaultPageSize
    /\ loading' = FALSE
    /\ filters' = NoFilters
    /\ filteredRows' = p.total_rows
    /\ showOptions' = FALSE
    /\ exportLimit' = LimitAll
    /\ customLimit' = <<>>
    /\ showWarning' = FALSE
    /\ shown' = NoneShown

\* useEffect([initialData, totalRows, filters]) of a DataTable that stays
\* mounted while its props are replaced.
PropsEffect(p) ==
    /\ IF DOMAIN filters = {}
       THEN data' = p.data /\ filteredRows' = p.total_rows
            /\ shown' = NoneShown
       ELSE UNCHANGED <<data, filteredRows, shown>>
    /\ UNCHANGED <<currentPage, pageSize, loading, filters>>
    /\ UNCHANGED buttonVars

\* The ColumnSlicers of a SlicerPanel: one per column, keyed by the column
\* name.  A slicer starts with no values and asks for them once, when it
\* mounts; a slicer whose key stays keeps its state when the columns are
\* passed again.
NoSlicers == [c \in {} |-> {}]

MountSlicers(columns, kept, instance, pending) ==
    /\ availableValues' = [c \in columns |->
           IF c \in DOMAIN kept THEN kept[c] ELSE {}]
    /\ lookups' = pending \cup
           {[inst |-> instance, col |-> c, stage |-> "sent", values |-> {},
             count |-> 0, ds |-> Null] :
               c \in columns \ DOMAIN kept}

\* App's render of the state an action leaves in appData' and appLoading':
\* DataTable is rendered iff data && !loading.  fresh: appData' is a newly
\* received response object; pending: the loadColumnValues calls the action
\* leaves in progress.
RenderWith(fresh, pending) ==
    LET now == appData' # <<>> /\ ~appLoading'
    IN  IF now /\ ~Mounted
        THEN /\ inst' = inst + 1
             /\ MountDataTable(appData'[1])
             /\ MountSlicers(appData'[1].columns, NoSlicers, inst + 1,
                             pending)
        ELSE IF now
             THEN /\ inst' = inst
                  /\ IF fresh
                     THEN /\ PropsEffect(appData'[1])
                          /\ MountSlicers(appData'[1].columns,
                                          availableValues, inst, pending)
                     ELSE /\ UNCHANGED tableVars /\ UNCHANGED buttonVars
                          /\ UNCHANGED <<shown, availableValues>>
                          /\ lookups' = pending
             ELSE /\ inst' = inst
                  /\ Unmounted
                  /\ availableValues' = NoSlicers
                  /\ lookups' = pending

Render(fresh) == RenderWith(fresh, lookups)

\* A handleError that reports the error and keeps the loaded data.
HandleErrorKeepsData(msg) ==
    /\ appError' = msg
    /\ UNCHANGED appData

\* App.handleError: setError(message); setData(null).
HandleError(msg) ==
    /\ appError' = msg
    /\ appData' = <<>>

\* App.handleDataLoaded: setData(response); setError(null).
HandleDataLoaded(resp) ==
    /\ appData' = <<resp>>
    /\ appError' = Null

\* App.clearData (the Clear button of the error panel).
ClearData ==
    /\ appError # Null
    /\ appData' = <<>>
    /\ appError' = Null
    /\ UNCHANGED appLoading
    /\ Render(FALSE)
    /\ UNCHANGED <<serverDs, loads, fetches, exports, nLoads, nFetches,
                   nExports>>

\* ----------------------------------------------------------- FileUpload
NoResp == [data |-> NoRows, columns |-> {}, total_rows |-> 0]

\* handleLoadFile up to its first await.
HandleLoadFile(path) ==
    IF path = ""
    THEN /\ HandleError("path")
         /\ UNCHANGED appLoading
         /\ Render(FALSE)
         /\ UNCHANGED <<serverDs, loads, fetches, exports, nLoads, nFetches,
                        nExports>>
    ELSE /\ appLoading' = TRUE
         /\ UNCHANGED <<appData, appError>>
         /\ nLoads' = nLoads + 1
         /\ loads' = loads \cup {[id |-> nLoads + 1, path |-> path,
                                  stage |-> "load", resp |-> NoResp]}
         /\ Render(FALSE)
         /\ UNCHANGED <<serverDs, fetches, exports, nFetches, nExports>>

\* POST /load-parquet commits: the service's active dataset is replaced,
\* and handleLoadFile goes on to request the first batch.
ServeLoadParquet(l) ==
    /\ l.stage = "load"
    /\ serverDs' = l.path
    /\ loads' = (loads \ {l}) \cup {[l EXCEPT !.stage = "get"]}
    /\ UNCHANGED <<appVars, slicerVars, inst, tableVars, buttonVars, shown, fetches,
                   exports, nLoads, nFetches, nExports>>

\* A first batch whose row count is the one of the file the call loaded.
ServeGetDataCountOfPath(l) ==
    /\ l.stage = "get"
    /\ loads' = (loads \ {l}) \cup
                {[l EXCEPT !.stage = "got",
                           !.resp = [GetData(serverDs, InitialLimit, 0)
                                       EXCEPT !.total_rows = DatasetSize(l.path)]]}
    /\ UNCHANGED <<appVars, slicerVars, inst, tableVars, buttonVars, shown,
                   fetches, exports, serverDs, nLoads, nFetches, nExports>>

\* GET /data?limit=1000&offset=0 is answered from the active dataset.
ServeGetData(l) ==
    /\ l.stage = "get"
    /\ loads' = (loads \ {l}) \cup
                {[l EXCEPT !.stage = "got",
                           !.resp = GetData(serverDs, InitialLimit, 0)]}
    /\ UNCHANGED <<appVars, slicerVars, inst, tableVars, buttonVars, shown, fetches,
                   exports, serverDs, nLoads, nFetches, nExports>>

\* handleLoadFile after both awaits: onDataLoaded, then onLoadingChange(false).
DeliverLoad(l) ==
    /\ l.stage = "got"
    /\ HandleDataLoaded(l.resp)
    /\ appLoading' = FALSE
    /\ loads' = loads \ {l}
    /\ Render(TRUE)
    /\ UNCHANGED <<serverDs, fetches, exports, nLoads, nFetches, nExports>>

\* Either request of handleLoadFile fails: onError, then onLoadingChange(false).
FailLoad(l) ==
    /\ HandleError("load")
    /\ appLoading' = FALSE
    /\ loads' = loads \ {l}
    /\ Render(FALSE)
    /\ UNCHANGED <<serverDs, fetches, exports, nLoads, nFetches, nExports>>

\* ------------------------------------------------------------ DataTable
NoPage == [rows |-> NoRows, total_rows |-> 0, filtered_rows |-> 0]

\* Math.ceil(filteredRows / pageSize)
TotalPages == (filteredRows + pageSize - 1) \div pageSize

\* A loadPage that issues the request without raising the loading flag.
LoadPageNoLoadingFlag(page, size, currentFilters) ==
    /\ nFetches < MaxFetches
    /\ UNCHANGED loading
    /\ nFetches' = nFetches + 1
    /\ fetches' = fetches \cup
           {[id |-> nFetches + 1, inst |-> inst, page |-> page,
             limit |-> size, offset |-> (page - 1) * size,
             filters |-> currentFilters, stage |-> "sent", resp |-> NoPage]}

\* loadPage up to its await: setLoading(true), then
\* apiService.getFilteredData(size, (page - 1) * size, currentFilters).
LoadPage(page, size, currentFilters) ==
    /\ nFetches < MaxFetches
    /\ loading' = TRUE
    /\ nFetches' = nFetches + 1
    /\ fetches' = fetches \cup
           {[id |-> nFetches + 1, inst |-> inst, page |-> page,
             limit |-> size, offset |-> (page - 1) * size,
             filters |-> currentFilters, stage |-> "sent", resp |-> NoPage]}

\* The pages the pagination buttons can ask for: First, Previous, the
\* numbered buttons of getPageNumbers, Next, Last.
PageButtons ==
    (IF currentPage # 1 THEN {1, currentPage - 1} ELSE {})
    \cup (Max(1, currentPage - 2) .. Min(TotalPages, currentPage + 2))
    \cup (IF currentPage # TotalPages THEN {currentPage + 1, TotalPages} ELSE {})

HandlePageChange(page) ==
    /\ Mounted
    /\ page >= 1 /\ page <= TotalPages /\ page # currentPage
    /\ LoadPage(page, pageSize, filters)
    /\ UNCHANGED <<appVars, slicerVars, inst, data, currentPage, pageSize, filters,
                   filteredRows, buttonVars, shown, serverDs, loads, exports,
                   nLoads, nExports>>

HandlePageSizeChange(size) ==
    /\ Mounted
    /\ size # pageSize
    /\ pageSize' = size
    /\ LoadPage(1, size, filters)
    /\ UNCHANGED <<appVars, slicerVars, inst, data, currentPage, filters, filteredRows,
                   buttonVars, shown, serverDs, loads, exports, nLoads,
                   nExports>>

\* A handleFiltersChange that calls loadPage(1, pageSize) and so fetches
\* with the filters of the render it was created in.
HandleFiltersChangeOldFilters(newFilters) ==
    /\ Mounted
    /\ filters' = newFilters
    /\ currentPage' = 1
    /\ LoadPage(1, pageSize, filters)
    /\ IF DOMAIN newFilters = {}
       THEN data' = Props.data /\ filteredRows' = Props.total_rows
            /\ shown' = NoneShown
       ELSE UNCHANGED <<data, filteredRows, shown>>
    /\ UNCHANGED <<appVars, slicerVars, inst, pageSize, buttonVars, serverDs, loads,
                   exports, nLoads, nExports>>

\* setFilters(newFilters); setCurrentPage(1); loadPage(1, pageSize, newFilters);
\* then the effect on [initialData, totalRows, filters] of the next render.
HandleFiltersChange(newFilters) ==
    /\ Mounted
    /\ filters' = newFilters
    /\ currentPage' = 1
    /\ LoadPage(1, pageSize, newFilters)
    /\ IF DOMAIN newFilters = {}
       THEN data' = Props.data /\ filteredRows' = Props.total_rows
            /\ shown' = NoneShown
       ELSE UNCHANGED <<data, filteredRows, shown>>
    /\ UNCHANGED <<appVars, slicerVars, inst, pageSize, buttonVars, serverDs, loads,
                   exports, nLoads, nExports>>

\* --------------------------------------------- SlicerPanel / ColumnSlicer
\* selectedValues={filters[columnName] || []}
SelectedValues(col) == IF col \in DOMAIN filters THEN filters[col] ELSE <<>>

\* A handleColumnFilterChange that assigns the selection whatever its length.
ColumnFilterChangeKeepsEmpty(col, sel) ==
    [c \in DOMAIN filters \cup {col} |->
        IF c = col THEN sel ELSE filters[c]]

\* SlicerPanel.handleColumnFilterChange: copy, then delete or assign.
ColumnFilterChange(col, sel) ==
    IF Len(sel) = 0
    THEN [c \in DOMAIN filters \ {col} |-> filters[c]]
    ELSE [c \in DOMAIN filters \cup {col} |->
             IF c = col THEN sel ELSE filters[c]]

\* ColumnSlicer.handleValueToggle
HandleValueToggle(col, value) ==
    /\ col \in DOMAIN availableValues
    /\ HandleFiltersChange(ColumnFilterChange(col,
           IF value \in Range(SelectedValues(col))
           THEN SelectSeq(SelectedValues(col), LAMBDA v : v # value)
           ELSE Append(SelectedValues(col), value)))

\* ColumnSlicer.handleSelectAll; listed are the filteredValues, the
\* available values the search term leaves.  The button is disabled when
\* every listed value is selected.
HandleSelectAll(col, listed) ==
    /\ col \in DOMAIN availableValues
    /\ listed \subseteq availableValues[col]
    /\ ~(listed \subseteq Range(SelectedValues(col)))
    /\ HandleFiltersChange(ColumnFilterChange(col,
           SelectedValues(col) \o
           SortedValues(listed \ Range(SelectedValues(col)))))

\* ColumnSlicer.handleDeselectAll; the button is disabled when no listed
\* value is selected.
HandleDeselectAll(col, listed) ==
    /\ col \in DOMAIN availableValues
    /\ listed \subseteq availableValues[col]
    /\ listed \cap Range(SelectedValues(col)) # {}
    /\ HandleFiltersChange(ColumnFilterChange(col,
           SelectSeq(SelectedValues(col), LAMBDA v : v \notin listed)))

\* ColumnSlicer.handleClearAll; the button is disabled without a selection.
HandleClearAll(col) ==
    /\ col \in DOMAIN availableValues
    /\ Len(SelectedValues(col)) # 0
    /\ HandleFiltersChange(ColumnFilterChange(col, <<>>))

\* ColumnSlicer.getDisplayText
GetDisplayText(col) ==
    LET totalSelected  == Len(SelectedValues(col))
        totalAvailable == Cardinality(availableValues[col])
    IN  IF totalSelected = 0 THEN "All"
        ELSE IF totalSelected = totalAvailable THEN "All"
        ELSE IF totalSelected = 1 THEN SelectedValues(col)[1]
        ELSE ToString(totalSelected) \o " selected"

\* ColumnSlicer.hasActiveFilter
HasActiveFilter(col) ==
    /\ Len(SelectedValues(col)) > 0
    /\ Len(SelectedValues(col)) < Cardinality(availableValues[col])

\* SlicerPanel.activeFilterCount
ActiveFilterCount == Cardinality(DOMAIN filters)

\* the remove button of a filter tag: handleColumnFilterChange(columnName, [])
RemoveFilterTag(col) ==
    /\ col \in DOMAIN filters
    /\ HandleFiltersChange(ColumnFilterChange(col, <<>>))

\* SlicerPanel.handleClearAllFilters (the button is disabled without filters)
HandleClearAllFilters ==
    /\ DOMAIN filters # {}
    /\ HandleFiltersChange(NoFilters)

\* ------------------------------------------- page fetches on the wire
\* A service whose answer to a request depends on how many came before it.
ServeFetchByArrival(f) ==
    /\ f.stage = "sent"
    /\ fetches' = (fetches \ {f}) \cup
         {IF serverDs = Null \/ InvalidFilterColumn(serverDs, f.filters)
          THEN [f EXCEPT !.stage = "error"]
          ELSE [f EXCEPT !.stage = "ok",
                         !.resp = Evaluate(serverDs, f.filters,
                                           f.offset + f.id - 1, f.limit)]}
    /\ UNCHANGED <<appVars, slicerVars, inst, tableVars, buttonVars, shown, serverDs,
                   loads, exports, nLoads, nFetches, nExports>>

\* A service that applies the constraints on the columns it knows and drops
\* the others.
ServeFetchKnownColumns(f) ==
    /\ f.stage = "sent"
    /\ fetches' = (fetches \ {f}) \cup
         {IF serverDs = Null
          THEN [f EXCEPT !.stage = "error"]
          ELSE [f EXCEPT !.stage = "ok",
                         !.resp = Evaluate(serverDs,
                                     [c \in DOMAIN f.filters \cap Schema(serverDs)
                                        |-> f.filters[c]],
                                     f.offset, f.limit)]}
    /\ UNCHANGED <<appVars, slicerVars, inst, tableVars, buttonVars, shown, serverDs,
                   loads, exports, nLoads, nFetches, nExports>>

\* A service that refuses a window that starts past the last match.
ServeFetchRejectsWindow(f) ==
    /\ f.stage = "sent"
    /\ fetches' = (fetches \ {f}) \cup
         {IF \/ serverDs = Null
             \/ InvalidFilterColumn(serverDs, f.filters)
             \/ f.offset > FilteredRowsOf(serverDs, f.filters)
          THEN [f EXCEPT !.stage = "error"]
          ELSE [f EXCEPT !.stage = "ok",
                         !.resp = Evaluate(serverDs, f.filters, f.offset, f.limit)]}
    /\ UNCHANGED <<appVars, slicerVars, inst, tableVars, buttonVars, shown, serverDs,
                   loads, exports, nLoads, nFetches, nExports>>

\* GET /data/filtered is answered from the active dataset.
ServeFetch(f) ==
    /\ f.stage = "sent"
    /\ fetches' = (fetches \ {f}) \cup
         {IF serverDs = Null \/ InvalidFilterColumn(serverDs, f.filters)
          THEN [f EXCEPT !.stage = "error"]
          ELSE [f EXCEPT !.stage = "ok",
                         !.resp = Evaluate(serverDs, f.filters, f.offset, f.limit)]}
    /\ UNCHANGED <<appVars, slicerVars, inst, tableVars, buttonVars, shown, serverDs,
                   loads, exports, nLoads, nFetches, nExports>>

\* loadPage after its await, response.data present.  The setters of an
\* instance that is no longer mounted do nothing.
DeliverFetch(f) ==
    /\ f.stage = "ok"
    /\ fetches' = fetches \ {f}
    /\ IF Mounted /\ f.inst = inst
       THEN /\ data' = f.resp.rows
            /\ currentPage' = f.page
            /\ filteredRows' = f.resp.filtered_rows
            /\ loading' = FALSE
            /\ shown' = [id |-> f.id, latest |-> nFetches]
       ELSE UNCHANGED <<data, currentPage, filteredRows, loading, shown>>
    /\ UNCHANGED <<appVars, slicerVars, inst, pageSize, filters, buttonVars, serverDs,
                   loads, exports, nLoads, nFetches, nExports>>

\* loadPage after its await, response.error set (the service refused the
\* request or the connection failed): onError, then setLoading(false) on a
\* DataTable that onError has unmounted.
FailFetch(f) ==
    /\ f.stage # "lost"
    /\ fetches' = fetches \ {f}
    /\ HandleError("fetch")
    /\ UNCHANGED appLoading
    /\ Render(FALSE)
    /\ UNCHANGED <<serverDs, loads, exports, nLoads, nFetches, nExports>>


\* The request or its response is lost on the way and the connection stays
\* open: fetch() has no timeout and loadPage no timer, so the await of this
\* call never returns.
LoseFetch(f) ==
    /\ f.stage \in {"sent", "ok", "error"}
    /\ fetches' = (fetches \ {f}) \cup {[f EXCEPT !.stage = "lost"]}
    /\ UNCHANGED <<appVars, slicerVars, inst, tableVars, buttonVars, shown,
                   serverDs, loads, exports, nLoads, nFetches, nExports>>

\* ------------------------------------------- column values on the wire
\* GET /data/columns/{column}/values is answered from the active dataset;
\* ds is history, the dataset the answer was computed from.
ServeLookup(k) ==
    /\ k.stage = "sent"
    /\ lookups' = (lookups \ {k}) \cup
         {IF serverDs = Null \/ k.col \notin Schema(serverDs)
          THEN [k EXCEPT !.stage = "error"]
          ELSE [k EXCEPT !.stage = "ok",
                         !.values = ValuesFor(serverDs, k.col).values,
                         !.count = ValuesFor(serverDs, k.col).count,
                         !.ds = serverDs]}
    /\ UNCHANGED <<appVars, availableValues, inst, tableVars, buttonVars,
                   shown, serverDs, loads, fetches, exports, nLoads, nFetches,
                   nExports>>

\* loadColumnValues after its await, response.data present.  The setters of
\* a slicer that is no longer mounted do nothing.
DeliverLookup(k) ==
    /\ k.stage = "ok"
    /\ lookups' = lookups \ {k}
    /\ IF Mounted /\ k.inst = inst /\ k.col \in DOMAIN availableValues
       THEN availableValues' = [availableValues EXCEPT ![k.col] = k.values]
       ELSE UNCHANGED availableValues
    /\ UNCHANGED <<appVars, inst, tableVars, buttonVars, shown, serverDs,
                   loads, fetches, exports, nLoads, nFetches, nExports>>

\* loadColumnValues after its await, response.error set: onError.
FailLookup(k) ==
    /\ k.stage # "lost"
    /\ HandleError("values")
    /\ UNCHANGED appLoading
    /\ RenderWith(FALSE, lookups \ {k})
    /\ UNCHANGED <<serverDs, loads, fetches, exports, nLoads, nFetches,
                   nExports>>

\* The lookup's request or response is lost and the connection stays open.
LoseLookup(k) ==
    /\ k.stage \in {"sent", "ok", "error"}
    /\ lookups' = (lookups \ {k}) \cup {[k EXCEPT !.stage = "lost"]}
    /\ UNCHANGED <<appVars, availableValues, inst, tableVars, buttonVars,
                   shown, serverDs, loads, fetches, exports, nLoads, nFetches,
                   nExports>>

\* ---------------------------------------------------------------- exports
\* A handleExport that calls the export service without the filters.
DataTableHandleExportNoFilters(format, limit, warned) ==
    /\ nExports < MaxExports
    /\ nExports' = nExports + 1
    /\ exports' = exports \cup
         {[id |-> nExports + 1, format |-> format, limit |-> limit,
           offset |-> 0, filters |-> NoFilters, warned |-> warned,
           seen |-> filteredRows, stage |-> "pending", filtered |-> 0,
           requested |-> 0, effective |-> 0, truncated |-> FALSE,
           rowsOut |-> 0, sent |-> 0, held |-> 0, buffered |-> 0,
           finalized |-> 0, downloads |-> 0, reported |-> FALSE]}

\* DataTable.handleExport up to its await: apiService.exportCSV / exportExcel
\* (limit, 0, filters) builds the request URL from its arguments at once.
\* warned and seen are history: whether the row-limit warning preceded the
\* call, and the filtered-row count the view held when it was made.
\* buffered counts the rows of the response body the pending response.blob()
\* holds, downloads the clicks on the download link, reported the onError
\* calls of this export.
DataTableHandleExport(format, limit, warned) ==
    /\ nExports < MaxExports
    /\ nExports' = nExports + 1
    /\ exports' = exports \cup
         {[id |-> nExports + 1, format |-> format, limit |-> limit,
           offset |-> 0, filters |-> filters, warned |-> warned,
           seen |-> filteredRows, stage |-> "pending", filtered |-> 0,
           requested |-> 0, effective |-> 0, truncated |-> FALSE,
           rowsOut |-> 0, sent |-> 0, held |-> 0, buffered |-> 0,
           finalized |-> 0, downloads |-> 0, reported |-> FALSE]}

\* ExportButton: the limit its handleExport computes from the radio group.
SelectedLimit ==
    IF exportLimit = LimitAll
    THEN <<>>
    ELSE IF exportLimit = LimitCustom
         THEN IF ParseInt(customLimit) = <<>> \/ ParseInt(customLimit) = <<0>>
              THEN <<>>
              ELSE ParseInt(customLimit)
         ELSE ParseInt(exportLimit)

\* A warning test that looks at the row count only when no limit is chosen.
ExceedsExcelIgnoresLimit(format, limit) ==
    /\ format = "excel"
    /\ filteredRows > EXCEL_MAX_ROWS
    /\ limit = <<>>

\* A warning test that does not look at the format.
ExceedsAnyFormat(format, limit) ==
    /\ filteredRows > EXCEL_MAX_ROWS
    /\ (limit = <<>> \/ limit[1] > EXCEL_MAX_ROWS)

\* ExportButton.handleExport's test for the Excel warning (totalRows is the
\* filteredRows of the DataTable).
ExceedsExcel(format, limit) ==
    /\ format = "excel"
    /\ filteredRows > EXCEL_MAX_ROWS
    /\ (limit = <<>> \/ limit[1] > EXCEL_MAX_ROWS)

\* ExportButton.getEffectiveRows
GetEffectiveRows ==
    IF exportLimit = LimitAll
    THEN filteredRows
    ELSE IF exportLimit = LimitCustom
         THEN Min(IF ParseInt(customLimit) = <<>> \/ ParseInt(customLimit) = <<0>>
                  THEN filteredRows
                  ELSE ParseInt(customLimit)[1], filteredRows)
         ELSE Min(ParseInt(exportLimit)[1], filteredRows)

\* ExportButton.willExceedExcelLimit
WillExceedExcelLimit == GetEffectiveRows > EXCEL_MAX_ROWS

\* the "Export Data" button and the close button of the options panel
ToggleOptions ==
    /\ Mounted
    /\ showOptions' = ~showOptions
    /\ UNCHANGED <<appVars, slicerVars, inst, tableVars, exportLimit, customLimit,
                   showWarning, shown, serverDs, loads, fetches, exports,
                   nLoads, nFetches, nExports>>

SetExportLimit(v) ==
    /\ Mounted /\ showOptions
    /\ v # exportLimit
    /\ exportLimit' = v
    /\ UNCHANGED <<appVars, slicerVars, inst, tableVars, showOptions, customLimit,
                   showWarning, shown, serverDs, loads, fetches, exports,
                   nLoads, nFetches, nExports>>

\* the custom input is disabled unless the custom radio is selected
SetCustomLimit(text) ==
    /\ Mounted /\ showOptions
    /\ exportLimit = LimitCustom
    /\ text # customLimit
    /\ customLimit' = text
    /\ UNCHANGED <<appVars, slicerVars, inst, tableVars, showOptions, exportLimit,
                   showWarning, shown, serverDs, loads, fetches, exports,
                   nLoads, nFetches, nExports>>

\* ExportButton.handleExport, from the format buttons of the options panel
\* or the CSV button of the warning modal.
ExportButtonHandleExport(format) ==
    /\ Mounted
    /\ showOptions \/ (showWarning /\ format = "csv")
    /\ IF ExceedsExcel(format, SelectedLimit)
       THEN /\ showWarning' = TRUE
            /\ UNCHANGED <<showOptions, exports, nExports>>
       ELSE /\ DataTableHandleExport(format, SelectedLimit, showWarning)
            /\ showOptions' = FALSE
            /\ showWarning' = FALSE
    /\ UNCHANGED <<appVars, slicerVars, inst, tableVars, exportLimit, customLimit, shown,
                   serverDs, loads, fetches, nLoads, nFetches>>

\* the Excel button of the warning modal: onExport('excel', EXCEL_MAX_ROWS)
WarningExportExcel ==
    /\ Mounted /\ showWarning
    /\ DataTableHandleExport("excel", <<EXCEL_MAX_ROWS>>, TRUE)
    /\ showWarning' = FALSE
    /\ showOptions' = FALSE
    /\ UNCHANGED <<appVars, slicerVars, inst, tableVars, exportLimit, customLimit, shown,
                   serverDs, loads, fetches, nLoads, nFetches>>

\* the Cancel button of the warning modal
WarningCancel ==
    /\ Mounted /\ showWarning
    /\ showWarning' = FALSE
    /\ UNCHANGED <<appVars, slicerVars, inst, tableVars, showOptions, exportLimit,
                   customLimit, shown, serverDs, loads, fetches, exports,
                   nLoads, nFetches, nExports>>

\* -------------------------------------- export stream coordinator (design)
\* format_max_rows: the spreadsheet's maximum, its header row not counted;
\* the delimited sink has none.
SpreadsheetMaxRows == 1048575
FormatHasCap(format) == format = "excel"
FormatMaxRows(format) == SpreadsheetMaxRows

\* effective_row_limit = min(row_limit or filtered_rows, format_max_rows)
EffectiveRowLimit(format, requested) ==
    IF FormatHasCap(format)
    THEN Min(requested, FormatMaxRows(format))
    ELSE requested

\* The number of rows the coordinator reads and hands to the sink at a time.
BatchSize == 524288

\* The rows a streaming export is to write: its effective limit, within the
\* rows that match.
RowsToWrite(e) == Clamp(e.effective, 0, e.filtered)

\* start_export: pending -> streaming, the limits fixed before any row is
\* handed to the sink.
ServeExport(e) ==
    /\ e.stage = "pending"
    /\ serverDs # Null
    /\ LET fr  == FilteredRowsOf(serverDs, e.filters)
           req == IF e.limit = <<>> THEN fr ELSE e.limit[1]
           eff == EffectiveRowLimit(e.format, req)
       IN  exports' = (exports \ {e}) \cup
             {[e EXCEPT !.stage = "streaming", !.filtered = fr,
                        !.requested = req, !.effective = eff,
                        !.truncated = (eff < req)]}
    /\ UNCHANGED <<appVars, slicerVars, inst, tableVars, buttonVars, shown, serverDs,
                   loads, fetches, nLoads, nFetches, nExports>>

\* One batch: read from the planner, encoded into the sink and written to the
\* response, replacing the batch before it; the client's response.blob()
\* keeps every row it has received.
StreamBatch(e) ==
    /\ e.stage = "streaming"
    /\ e.sent < RowsToWrite(e)
    /\ LET n == Min(BatchSize, RowsToWrite(e) - e.sent)
       IN  exports' = (exports \ {e}) \cup
             {[e EXCEPT !.sent = e.sent + n, !.held = n,
                        !.buffered = e.buffered + n]}
    /\ UNCHANGED <<appVars, slicerVars, inst, tableVars, buttonVars, shown, serverDs,
                   loads, fetches, nLoads, nFetches, nExports>>

\* The stream is finalized and the client saves the file: result.success,
\* DataTable.handleExport has nothing left to do.
FinishExport(e) ==
    /\ e.stage = "streaming"
    /\ e.sent = RowsToWrite(e)
    /\ exports' = (exports \ {e}) \cup
         {[e EXCEPT !.stage = IF e.truncated THEN "truncated" ELSE "completed",
                    !.rowsOut = e.sent,
                    !.held = 0,
                    !.finalized = e.finalized + 1,
                    !.buffered = 0,
                    !.downloads = e.downloads + 1]}
    /\ UNCHANGED <<appVars, slicerVars, inst, tableVars, buttonVars, shown, serverDs,
                   loads, fetches, nLoads, nFetches, nExports>>

\* A failure path that still builds the download from what was received.
FailExportSavesPartial(e) ==
    /\ e.stage \in {"pending", "streaming"}
    /\ exports' = (exports \ {e}) \cup
         {[e EXCEPT !.stage = "failed", !.held = 0, !.buffered = 0,
                    !.rowsOut = e.sent, !.downloads = e.downloads + 1,
                    !.reported = TRUE]}
    /\ HandleError("export")
    /\ UNCHANGED appLoading
    /\ Render(FALSE)
    /\ UNCHANGED <<serverDs, loads, fetches, nLoads, nFetches, nExports>>

\* A failure path that closes the sink's framing before it reports.
FailExportFinalizes(e) ==
    /\ e.stage \in {"pending", "streaming"}
    /\ exports' = (exports \ {e}) \cup
         {[e EXCEPT !.stage = "failed", !.held = 0, !.buffered = 0,
                    !.finalized = e.finalized + 1, !.reported = TRUE]}
    /\ HandleError("export")
    /\ UNCHANGED appLoading
    /\ Render(FALSE)
    /\ UNCHANGED <<serverDs, loads, fetches, nLoads, nFetches, nExports>>

\* A failure that can also be reported for an export that has ended.
FailExportAnyStage(e) ==
    /\ exports' = (exports \ {e}) \cup
         {[e EXCEPT !.stage = "failed", !.held = 0, !.buffered = 0,
                    !.reported = TRUE]}
    /\ HandleError("export")
    /\ UNCHANGED appLoading
    /\ Render(FALSE)
    /\ UNCHANGED <<serverDs, loads, fetches, nLoads, nFetches, nExports>>

\* The export fails: { success: false, error }, and DataTable.handleExport
\* calls onError(`Export failed: ...`).
FailExport(e) ==
    /\ e.stage \in {"pending", "streaming"}
    /\ exports' = (exports \ {e}) \cup
         {[e EXCEPT !.stage = "failed", !.held = 0, !.buffered = 0,
                    !.reported = TRUE]}
    /\ HandleError("export")
    /\ UNCHANGED appLoading
    /\ Render(FALSE)
    /\ UNCHANGED <<serverDs, loads, fetches, nLoads, nFetches, nExports>>

\* ------------------------------------------------------- specifications
Init ==
    /\ appData = <<>>
    /\ appLoading = FALSE
    /\ appError = Null
    /\ inst = 0
    /\ data = NoRows
    /\ currentPage = 1
    /\ pageSize = DefaultPageSize
    /\ loading = FALSE
    /\ filters = NoFilters
    /\ filteredRows = 0
    /\ showOptions = FALSE
    /\ exportLimit = LimitAll
    /\ customLimit = <<>>
    /\ showWarning = FALSE
    /\ serverDs = Null
    /\ loads = {}
    /\ fetches = {}
    /\ exports = {}
    /\ nLoads = 0
    /\ nFetches = 0
    /\ nExports = 0
    /\ shown = NoneShown
    /\ availableValues = NoSlicers
    /\ lookups = {}

\* The inputs tried: the page sizes picked in the selector, the check boxes
\* toggled in the slicers, the files loaded.
PageSizeInputs == {50, 100}
ToggleInputs   == {<<"region", "east">>, <<"region", "west">>, <<"kind", "a">>}
Columns        == {"region", "kind"}

\* Browsing: loading files, paging and filtering.
Next ==
    \/ \E path \in SmallPaths : nLoads < MaxLoads /\ HandleLoadFile(path)
    \/ \E l \in loads : ServeLoadParquet(l)
    \/ \E l \in loads : ServeGetData(l)
    \/ \E l \in loads : DeliverLoad(l)
    \/ \E l \in loads : FailLoad(l)
    \/ ClearData
    \/ \E page \in PageButtons : HandlePageChange(page)
    \/ \E size \in PageSizeInputs : HandlePageSizeChange(size)
    \/ \E t \in ToggleInputs : HandleValueToggle(t[1], t[2])
    \/ \E col \in Columns : RemoveFilterTag(col)
    \/ HandleClearAllFilters
    \/ \E f \in fetches : ServeFetch(f)
    \/ \E f \in fetches : DeliverFetch(f)
    \/ \E f \in fetches : FailFetch(f)

Spec == Init /\ [][Next]_vars

\* Exporting from a view that shows the first page of a loaded file under
\* the FilterSpec F, while the filters keep changing.
ReadyView(d, F) ==
    /\ appData = <<GetData(d, InitialLimit, 0)>>
    /\ appLoading = FALSE
    /\ appError = Null
    /\ inst = 1
    /\ data = IF DOMAIN F = {}
              THEN GetData(d, InitialLimit, 0).data
              ELSE Evaluate(d, F, 0, DefaultPageSize).rows
    /\ currentPage = 1
    /\ pageSize = DefaultPageSize
    /\ loading = FALSE
    /\ filters = F
    /\ filteredRows = FilteredRowsOf(d, F)
    /\ showOptions = FALSE
    /\ exportLimit = LimitAll
    /\ customLimit = <<>>
    /\ showWarning = FALSE
    /\ serverDs = d
    /\ loads = {}
    /\ fetches = {}
    /\ exports = {}
    /\ nLoads = 1
    /\ nFetches = IF DOMAIN F = {} THEN 0 ELSE 1
    /\ nExports = 0
    /\ shown = IF DOMAIN F = {} THEN NoneShown ELSE [id |-> 1, latest |-> 1]
    /\ availableValues = [c \in Schema(d) |-> ValuesFor(d, c).values]
    /\ lookups = {}

\* The views exports are started from: <<file, FilterSpec>>.
East == [c \in {"region"} |-> <<"east">>]
ExportViews   == {<<"M", NoFilters>>, <<"N", NoFilters>>, <<"L", NoFilters>>,
                  <<"L", East>>}
BrowseViews   == {<<"L", East>>}
ExportToggles == {<<"region", "east">>, <<"region", "west">>}
LimitInputs   == {LimitAll, LimitCustom, <<"1", "0", "0", "0", "0", "0", "0">>}

InitExport == \E v \in ExportViews : ReadyView(v[1], v[2])

\* The export dialog: any limit, either format, the warning modal.
NextExport ==
    \/ ToggleOptions
    \/ \E v \in LimitInputs : SetExportLimit(v)
    \/ \E text \in CustomInputs : SetCustomLimit(text)
    \/ \E format \in {"csv", "excel"} : ExportButtonHandleExport(format)
    \/ WarningExportExcel
    \/ WarningCancel
    \/ \E e \in exports : ServeExport(e)
    \/ \E e \in exports : StreamBatch(e)
    \/ \E e \in exports : FinishExport(e)
    \/ \E e \in exports : FailExport(e)

ExportSpec == InitExport /\ [][NextExport]_vars

\* Exporting all rows while the filters change and their fetches complete.
NextBrowseExport ==
    \/ ToggleOptions
    \/ \E format \in {"csv", "excel"} : ExportButtonHandleExport(format)
    \/ WarningExportExcel
    \/ WarningCancel
    \/ \E e \in exports : ServeExport(e)
    \/ \E e \in exports : StreamBatch(e)
    \/ \E e \in exports : FinishExport(e)
    \/ \E e \in exports : FailExport(e)
    \/ \E t \in ExportToggles : HandleValueToggle(t[1], t[2])
    \/ \E f \in fetches : ServeFetch(f)
    \/ \E f \in fetches : DeliverFetch(f)

InitBrowseExport == \E v \in BrowseViews : ReadyView(v[1], v[2])

BrowseExportSpec == InitBrowseExport /\ [][NextBrowseExport]_vars

\* Loading one file while another load is in progress, with the value
\* lookups of the slicers of ReloadColumns.
ReloadToggles == {<<"kind", "a">>}
ReloadColumns == {"kind"}

NextReload ==
    \/ \E path \in SmallPaths : nLoads < MaxReloads /\ HandleLoadFile(path)
    \/ \E l \in loads : ServeLoadParquet(l)
    \/ \E l \in loads : ServeGetData(l)
    \/ \E l \in loads : DeliverLoad(l)
    \/ \E page \in PageButtons : HandlePageChange(page)
    \/ \E t \in ReloadToggles : HandleValueToggle(t[1], t[2])
    \/ \E f \in fetches : ServeFetch(f)
    \/ \E f \in fetches : DeliverFetch(f)
    \/ \E k \in lookups : k.col \in ReloadColumns /\ ServeLookup(k)
    \/ \E k \in lookups : k.col \in ReloadColumns /\ DeliverLookup(k)

ReloadSpec == Init /\ [][NextReload]_vars

\* The service swapping datasets under overlapping loads and page fetches.
NextSwap ==
    \/ \E path \in SmallPaths : nLoads < MaxReloads /\ HandleLoadFile(path)
    \/ \E l \in loads : ServeLoadParquet(l)
    \/ \E l \in loads : ServeGetData(l)
    \/ \E l \in loads : DeliverLoad(l)
    \/ \E l \in loads : FailLoad(l)
    \/ \E page \in PageButtons : HandlePageChange(page)
    \/ \E f \in fetches : ServeFetch(f)
    \/ \E f \in fetches : DeliverFetch(f)

SwapSpec == Init /\ [][NextSwap]_vars

\* Paging and filtering a loaded file: the windows the planner is asked for.
PlannerViews == {<<"A", NoFilters>>, <<"B", NoFilters>>}

InitPlanner == \E v \in PlannerViews : ReadyView(v[1], v[2])

NextPlanner ==
    \/ \E page \in PageButtons : HandlePageChange(page)
    \/ \E size \in PageSizeInputs : HandlePageSizeChange(size)
    \/ \E t \in ToggleInputs : HandleValueToggle(t[1], t[2])
    \/ \E f \in fetches : ServeFetch(f)
    \/ \E f \in fetches : DeliverFetch(f)

PlannerSpec == InitPlanner /\ [][NextPlanner]_vars

\* A file with fewer columns loaded after one with more, while the view
\* filters on a column the second file does not have.
SchemaPaths == {"A", "S"}

NextSchema ==
    \/ \E path \in SchemaPaths : nLoads < MaxReloads /\ HandleLoadFile(path)
    \/ \E l \in loads : ServeLoadParquet(l)
    \/ \E l \in loads : ServeGetData(l)
    \/ \E l \in loads : DeliverLoad(l)
    \/ \E t \in ReloadToggles : HandleValueToggle(t[1], t[2])
    \/ \E page \in PageButtons : HandlePageChange(page)
    \/ \E f \in fetches : ServeFetch(f)
    \/ \E f \in fetches : DeliverFetch(f)
    \/ \E f \in fetches : FailFetch(f)

SchemaSpec == Init /\ [][NextSchema]_vars

\* The value lists of the slicers, for a column under the cap and for one
\* over it.
CatalogPaths == {"A", "W"}

NextCatalog ==
    \/ \E path \in CatalogPaths : nLoads < MaxLoads /\ HandleLoadFile(path)
    \/ \E l \in loads : ServeLoadParquet(l)
    \/ \E l \in loads : ServeGetData(l)
    \/ \E l \in loads : DeliverLoad(l)
    \/ \E k \in lookups : ServeLookup(k)
    \/ \E k \in lookups : DeliverLookup(k)
    \/ \E k \in lookups : FailLookup(k)
    \/ \E page \in PageButtons : HandlePageChange(page)
    \/ \E f \in fetches : ServeFetch(f)
    \/ \E f \in fetches : DeliverFetch(f)

CatalogSpec == Init /\ [][NextCatalog]_vars

\* The slicers: the check boxes of the values listed, the buttons of the
\* dropdown, the filter tags and "Clear All".
SlicerViews == {<<"A", NoFilters>>, <<"A", East>>, <<"W", NoFilters>>}

InitSlicer == \E v \in SlicerViews : ReadyView(v[1], v[2])

NextSlicer ==
    \/ \E col \in DOMAIN availableValues : \E v \in availableValues[col] :
          HandleValueToggle(col, v)
    \/ \E col \in DOMAIN availableValues :
          \E listed \in SUBSET availableValues[col] :
             HandleSelectAll(col, listed)
    \/ \E col \in DOMAIN availableValues :
          \E listed \in SUBSET availableValues[col] :
             HandleDeselectAll(col, listed)
    \/ \E col \in DOMAIN availableValues : HandleClearAll(col)
    \/ \E col \in Columns : RemoveFilterTag(col)
    \/ HandleClearAllFilters
    \/ \E f \in fetches : ServeFetch(f)
    \/ \E f \in fetches : DeliverFetch(f)

SlicerSpec == InitSlicer /\ [][NextSlicer]_vars

\* Requests that are never answered, and lookups that fail.
NextTimeout ==
    \/ \E path \in SmallPaths : nLoads < MaxLoads /\ HandleLoadFile(path)
    \/ \E l \in loads : ServeLoadParquet(l)
    \/ \E l \in loads : ServeGetData(l)
    \/ \E l \in loads : DeliverLoad(l)
    \/ \E page \in PageButtons : HandlePageChange(page)
    \/ \E f \in fetches : ServeFetch(f)
    \/ \E f \in fetches : DeliverFetch(f)
    \/ \E f \in fetches : FailFetch(f)
    \/ \E f \in fetches : LoseFetch(f)
    \/ \E k \in lookups : ServeLookup(k)
    \/ \E k \in lookups : DeliverLookup(k)
    \/ \E k \in lookups : FailLookup(k)
    \/ \E k \in lookups : LoseLookup(k)

TimeoutSpec == Init /\ [][NextTimeout]_vars


\* ----------------------------------------------------------------- claims
OwnFetches == {f \in fetches : f.inst = inst}
Served(e)  == e.stage \in {"streaming", "completed", "truncated"}

\* C1: only the most recently issued request's response sets the displayed
\* rows, the current page and the filtered-row count: whenever a response
\* has been applied, no later request had been issued by then.
C1_LastIssuedWins == shown.id = shown.latest

\* C2: in Ready (rows displayed, no fetch of the view outstanding) every
\* displayed row satisfies every constraint of the view's FilterSpec.
C2_ReadyRowsSatisfyFilters ==
    (Mounted /\ OwnFetches = {}) =>
        \A k \in 1..data.n : Satisfies(RowsOf(data)[k], filters)

\* C3: a step that changes the FilterSpec of the view sets the page to 1 and
\* issues a fetch with offset 0, the current page size and the new
\* FilterSpec.
C3_FilterChangeFetch ==
    [][(Mounted /\ Mounted' /\ inst' = inst /\ filters' # filters) =>
          /\ currentPage' = 1
          /\ \E f \in fetches' \ fetches :
                /\ f.inst = inst
                /\ f.offset = 0
                /\ f.limit = pageSize'
                /\ f.filters = filters']_vars

\* a filter fetch for page 1 in flight while rows of a later page are shown
C3_Witness ==
    /\ Mounted
    /\ data.off > 0
    /\ DOMAIN filters # {}
    /\ \E f \in OwnFetches :
          f.stage = "sent" /\ f.offset = 0 /\ f.filters = filters

\* C4: a failed page fetch leaves the view in Error with no rows shown, and
\* a cleared view shows rows again only when a load is delivered.
C4_FailureClearsView ==
    [][/\ (\E f \in fetches : FailFetch(f)) =>
              appError' # Null /\ appData' = <<>> /\ ~Mounted' /\ data' = NoRows
       /\ (appData = <<>> /\ appData' # <<>>) =>
              \E l \in loads : l.stage = "got" /\ loads' = loads \ {l}]_vars

\* one fetch failed, and the response to another came in after it
C4_Witness ==
    /\ appError = "fetch"
    /\ appData = <<>>
    /\ nFetches = 2
    /\ fetches = {}

\* C5: a page change, a page-size change or a filter change sets the
\* loading flag and issues a fetch.
C5_ChangeStartsLoading ==
    [][(\/ \E page \in PageButtons : HandlePageChange(page)
        \/ \E size \in PageSizeInputs : HandlePageSizeChange(size)
        \/ \E t \in ToggleInputs : HandleValueToggle(t[1], t[2])
        \/ \E col \in Columns : RemoveFilterTag(col)
        \/ HandleClearAllFilters) =>
          /\ loading'
          /\ \E f \in fetches' \ fetches :
                f.stage = "sent" /\ f.inst = inst /\ f.id = nFetches']_vars

\* a page change made in Ready: page 1 shown, the fetch for page 2 in flight
C5_Witness ==
    /\ Mounted /\ loading
    /\ currentPage = 1
    /\ \E f \in OwnFetches : f.stage = "sent" /\ f.page = 2

\* C6: an export carries the FilterSpec the view had when it was started,
\* and no later step changes the FilterSpec of an export.
C6_ExportFiltersSnapshot ==
    [][/\ \A e \in exports :
             \E e2 \in exports' : e2.id = e.id /\ e2.filters = e.filters
       /\ \A e2 \in exports' :
             (\A e \in exports : e.id # e2.id) => e2.filters = filters]_vars

\* an export ran to its end under filters the view has left since
C6_Witness ==
    /\ Mounted
    /\ \E e \in exports :
          e.stage \in {"completed", "truncated"} /\ e.filters # filters

\* C7: a step that starts, completes or fails an export leaves the displayed
\* rows, the current page, the page size and the FilterSpec unchanged.
C7_ExportLeavesView ==
    [][exports' # exports =>
          UNCHANGED <<data, currentPage, pageSize, filters>>]_vars

\* C8: a spreadsheet export has effective_row_limit = min(row_limit or
\* filtered_rows, 1,048,575) from the moment it streams, never writes more
\* than 1,048,575 rows, and is never requested by the dialog for more than
\* 1,048,575 of the rows the view counts.
C8_SpreadsheetCap ==
    \A e \in exports : e.format = "excel" =>
        /\ Served(e) =>
              /\ e.requested = IF e.limit = <<>> THEN e.filtered ELSE e.limit[1]
              /\ e.effective = Min(e.requested, 1048575)
        /\ e.rowsOut <= 1048575
        /\ Min(IF e.limit = <<>> THEN e.seen ELSE e.limit[1], e.seen) <= 1048575

\* a row limit of 2,000,000 cut to 1,048,575 by the coordinator
C8_Witness ==
    \E e \in exports :
        /\ e.format = "excel" /\ e.stage = "truncated"
        /\ e.requested = 2000000 /\ e.effective = 1048575

\* C9: a spreadsheet export is flagged truncated exactly when its effective
\* row limit is below the requested one, and whenever the cap keeps matching
\* rows out of the file the row-limit warning was shown before the export
\* was issued.
C9_TruncationWarned ==
    \A e \in exports : (e.format = "excel" /\ Served(e)) =>
        /\ e.truncated = (e.effective < e.requested)
        /\ (Min(e.requested, e.filtered) > e.effective => e.warned)

\* C10: a CSV export is never capped or flagged truncated, without a limit
\* it writes exactly the filtered rows, and the CSV button always issues the
\* export with the selected limit and never raises the warning.
C10_CsvUncapped ==
    /\ [](\A e \in exports : e.format = "csv" =>
            /\ e.stage # "truncated"
            /\ Served(e) =>
                  /\ e.effective = e.requested
                  /\ ~e.truncated
                  /\ e.limit = <<>> => e.effective = e.filtered
            /\ (e.stage = "completed" /\ e.limit = <<>>) =>
                  e.rowsOut = e.filtered)
    /\ [][ExportButtonHandleExport("csv") =>
            /\ ~showWarning'
            /\ \E e \in exports' \ exports :
                  /\ e.format = "csv"
                  /\ e.limit = SelectedLimit
                  /\ e.filters = filters]_vars

\* all 2,000,000 rows of a view written to a CSV file
C10_Witness ==
    \E e \in exports :
        /\ e.format = "csv" /\ e.stage = "completed"
        /\ e.limit = <<>> /\ e.seen > 1048575
        /\ e.rowsOut = 2000000

\* C11: an export that fails, before or during the stream, ends in failed
\* without having been finalized: no file is saved for it, whatever part of
\* the body had arrived, and the failure is reported to the user.
C11_FailedExportSavesNothing ==
    \A e \in exports : e.stage = "failed" =>
        /\ e.finalized = 0
        /\ e.downloads = 0
        /\ e.rowsOut = 0
        /\ e.reported
        /\ appError # Null

\* an export failed after a batch had been written and received
C11_Witness ==
    \E e \in exports :
        /\ e.stage = "failed"
        /\ e.sent >= BatchSize
        /\ e.sent < RowsToWrite(e)
        /\ appError = "export"

\* C12: an export is finalized at most once and saved at most once, only as
\* completed or truncated, and an export that reported a failure is neither
\* finalized nor saved; one that completed was finalized and saved once.
C12_FinalizedOnce ==
    \A e \in exports :
        /\ e.finalized <= 1
        /\ e.downloads <= 1
        /\ (e.finalized = 1) = (e.stage \in {"completed", "truncated"})
        /\ e.downloads = e.finalized
        /\ e.reported => (e.finalized = 0 /\ e.downloads = 0)

\* an export of several batches finalized and saved
C12_Witness ==
    \E e \in exports :
        /\ e.stage = "completed"
        /\ e.finalized = 1 /\ e.downloads = 1 /\ ~e.reported
        /\ e.rowsOut > BatchSize

StageRank(stage) ==
    CASE stage = "pending" -> 0
      [] stage = "streaming" -> 1
      [] stage \in {"completed", "failed", "truncated"} -> 2

\* C13: a job starts pending, its state never moves backwards, it is
\* completed or truncated only from streaming, and a job in a terminal state
\* never changes again.
C13_ExportStagesForward ==
    [][/\ \A e \in exports : \E e2 \in exports' :
             /\ e2.id = e.id
             /\ StageRank(e2.stage) >= StageRank(e.stage)
             /\ (e2.stage \in {"completed", "truncated"} /\ e2.stage # e.stage)
                    => e.stage = "streaming"
             /\ StageRank(e.stage) = 2 => e2 = e
       /\ \A e2 \in exports' :
             (\A e \in exports : e.id # e2.id) => e2.stage = "pending"]_vars

\* a truncated export, and the options panel opened again after it
C13_Witness ==
    /\ Mounted /\ showOptions
    /\ \E e \in exports : e.stage = "truncated" /\ e.rowsOut = 1048575

\* C14: the rows of an export held in memory at any moment, by the
\* coordinator and by the client, stay within two batches, however many rows
\* the export has.
C14_BoundedExportMemory ==
    \A e \in exports :
        /\ e.held <= BatchSize
        /\ e.buffered <= 2 * BatchSize

\* C15: the step that completes a load leaves the view on page 1 with an
\* empty FilterSpec.
C15_LoadResetsView ==
    [][(\E l \in loads : DeliverLoad(l)) =>
          (currentPage' = 1 /\ filters' = NoFilters)]_vars

\* C16: once every load has completed and the view shows the service's
\* active dataset, each slicer offers no values yet or the values of that
\* dataset's column.
C16_ValuesOfLoadedDataset ==
    (Mounted /\ loads = {} /\ serverDs = Props.data.ds) =>
        \A c \in DOMAIN availableValues :
            availableValues[c] \in {{}, ColumnValues(serverDs, c)}

C19_FilteredWithinTotal ==
    /\ \A f \in fetches : f.stage = "ok" =>
          f.resp.filtered_rows <= f.resp.total_rows
    /\ Mounted => filteredRows <= Props.total_rows

\* C18: while the view is Loading, some step that ends a page fetch of the
\* view is possible -- its answer, its failure or its timing out -- whether or
\* not the service ever answers; and so it is for the value lookup of every
\* slicer of the view.
C18_LoadingCanEnd ==
    /\ (Mounted /\ loading) =>
          \E f \in OwnFetches :
              ENABLED (ServeFetch(f) \/ DeliverFetch(f) \/ FailFetch(f))
    /\ \A k \in lookups : (Mounted /\ k.inst = inst) =>
          ENABLED (ServeLookup(k) \/ DeliverLookup(k) \/ FailLookup(k))

\* The rows of d that satisfy F, in the order of the dataset.
MatchesOf(d, F) ==
    SelectSeq([i \in 1..DatasetSize(d) |-> <<d, i>>],
              LAMBDA row : Satisfies(row, F))

\* C20 as stated: the rows of an answered page fetch are the matches of its
\* FilterSpec in the dataset's order that follow the first offset ones, up
\* to limit of them, with offset + len(rows) <= filtered_rows.
C20_FetchPageAsStated ==
    \A f \in fetches : f.stage = "ok" =>
        LET M    == MatchesOf(f.resp.rows.ds, f.filters)
            rows == RowsOf(f.resp.rows)
        IN  /\ f.resp.filtered_rows = Len(M)
            /\ rows = SubSeq(M, f.offset + 1, Min(f.offset + f.limit, Len(M)))
            /\ f.offset + Len(rows) <= f.resp.filtered_rows

\* C20, amended: the offset is first clamped into [0, filtered_rows]; the
\* rows are the matches that follow the first clamped-offset ones, in the
\* dataset's order, up to limit of them, every one satisfying the FilterSpec,
\* and clamped offset + len(rows) <= filtered_rows; a window from 0 that is
\* not shorter than filtered_rows returns every match.
C20_FetchPageWindow ==
    \A f \in fetches : f.stage = "ok" =>
        LET M    == MatchesOf(f.resp.rows.ds, f.filters)
            rows == RowsOf(f.resp.rows)
            off  == Min(f.offset, Len(M))
        IN  /\ f.resp.filtered_rows = Len(M)
            /\ rows = SubSeq(M, off + 1, Min(off + f.limit, Len(M)))
            /\ off + Len(rows) <= f.resp.filtered_rows
            /\ \A k \in 1..Len(rows) : Satisfies(rows[k], f.filters)
            /\ (f.offset = 0 /\ f.limit >= Len(M)) => Len(rows) = Len(M)

\* a filtered fetch from 0 answered with every match, and a fetch for the
\* next page under that filter answered although its offset lies past the
\* last match
C20_Witness ==
    /\ \E f \in fetches :
          /\ f.stage = "ok" /\ DOMAIN f.filters # {}
          /\ f.offset = 0 /\ f.resp.rows.n = f.resp.filtered_rows
          /\ f.resp.filtered_rows > 0
    /\ \E f \in fetches :
          /\ f.stage = "ok" /\ DOMAIN f.filters # {}
          /\ f.offset > f.resp.filtered_rows

\* G adds constraints to F: every column F constrains is constrained by G,
\* to values F allows.
AddsConstraints(G, F) ==
    /\ DOMAIN F \subseteq DOMAIN G
    /\ \A c \in DOMAIN F : Range(G[c]) \subseteq Range(F[c])

\* C21: of two answered fetches against the same dataset, the one whose
\* FilterSpec adds constraints to the other's never has the larger
\* filtered_rows.
C21_ConstraintsNeverAddRows ==
    \A f, g \in fetches :
        (/\ f.stage = "ok" /\ g.stage = "ok"
         /\ f.resp.rows.ds = g.resp.rows.ds
         /\ AddsConstraints(g.filters, f.filters))
        => g.resp.filtered_rows <= f.resp.filtered_rows

\* two answers of which one is for a FilterSpec that adds constraints to
\* the other's, a constrained one, and has fewer rows
C21_Witness ==
    \E f, g \in fetches :
        /\ f.stage = "ok" /\ g.stage = "ok"
        /\ f.resp.rows.ds = g.resp.rows.ds
        /\ AddsConstraints(g.filters, f.filters)
        /\ DOMAIN f.filters # {}
        /\ g.filters # f.filters
        /\ g.resp.filtered_rows < f.resp.filtered_rows

C26_NonNegativeWindows ==
    /\ \A f \in fetches : f.offset >= 0 /\ f.limit >= 0
    /\ \A e \in exports :
          /\ e.offset = 0
          /\ e.limit # <<>> => e.limit[1] >= 0

\* C27: while a page fetch of the mounted view is outstanding, the view's
\* loading flag is set.
C27_LoadingWhileOutstanding ==
    (Mounted /\ \E f \in OwnFetches : f.stage \in {"sent", "ok", "error"})
        => loading

\* C28: whenever rows are displayed and no fetch of the view is outstanding,
\* they are the page of the view's window: at most pageSize rows, taken at
\* offset (currentPage - 1) * pageSize, with
\* 1 <= currentPage <= max(1, ceil(filteredRows / pageSize)).
C28_DisplayedRowsAreThePage ==
    (Mounted /\ ~loading /\ OwnFetches = {}) =>
        /\ data.n <= pageSize
        /\ data.off = (currentPage - 1) * pageSize
        /\ 1 <= currentPage /\ currentPage <= Max(1, TotalPages)

\* C23: a fetch whose FilterSpec names a column the active dataset does not
\* have is answered with an error and nothing else; every answer with rows
\* is for the whole FilterSpec of its request, all of whose columns are in
\* the schema, and so are the rows the view displays.
C23_UnknownColumnRejected ==
    /\ \A f \in fetches :
          /\ f.stage = "ok" =>
                /\ f.resp.rows.F = f.filters
                /\ DOMAIN f.filters \subseteq Schema(f.resp.rows.ds)
          /\ f.stage = "error" => f.resp = NoPage
    /\ data.ds # Null => DOMAIN data.F \subseteq Schema(data.ds)

\* the service holds a file without the column kind and has refused a
\* fetch that filters on kind
C23_Witness ==
    \E f \in fetches :
        /\ f.stage = "error"
        /\ serverDs # Null
        /\ InvalidFilterColumn(serverDs, f.filters)

\* C24: whatever its offset and limit, a fetch for columns of the loaded
\* file is not answered with an error, and the answer's window lies within
\* [0, filtered_rows].
C24_WindowNeverAnError ==
    \A f \in fetches :
        /\ f.stage # "error"
        /\ f.stage = "ok" =>
              /\ 0 <= f.resp.rows.off
              /\ f.resp.rows.off <= f.resp.filtered_rows
              /\ 0 <= f.resp.rows.n
              /\ f.resp.rows.off + f.resp.rows.n <= f.resp.filtered_rows

\* the answer to a fetch whose offset lies past the last match is displayed:
\* no rows, no error
C24_Witness ==
    /\ Mounted /\ appError = Null
    /\ shown.id # 0
    /\ (currentPage - 1) * pageSize > filteredRows
    /\ data.n = 0

\* C25: an answered lookup has count equal to the number of distinct values
\* of the column; for a column with more than ValuesCap distinct values it
\* has exactly ValuesCap values, fewer than count, and for any other column
\* as many values as count.
C25_CappedValuesTrueCount ==
    \A k \in lookups : k.stage = "ok" =>
        LET all == ColumnValues(k.ds, k.col)
        IN  /\ k.count = Cardinality(all)
            /\ k.values \subseteq all
            /\ IF Cardinality(all) > ValuesCap
               THEN /\ Cardinality(k.values) = ValuesCap
                    /\ k.count > Cardinality(k.values)
               ELSE Cardinality(k.values) = k.count

\* the lookups of a file answered: a column over the cap, with fewer values
\* than count, and a column under it
C25_Witness ==
    /\ \E k \in lookups :
          /\ k.stage = "ok"
          /\ Cardinality(k.values) = ValuesCap
          /\ k.count > ValuesCap
    /\ \E k \in lookups :
          /\ k.stage = "ok"
          /\ k.count <= ValuesCap
          /\ Cardinality(k.values) = k.count

\* C29: no step leaves a column with an empty selection in the view's
\* FilterSpec, and no step changes the FilterSpec a fetch was issued with.
C29_NoEmptyConstraint ==
    [][/\ \A c \in DOMAIN filters' : Len(filters'[c]) > 0
       /\ \A f \in fetches : \A g \in fetches' :
             g.id = f.id => g.filters = f.filters]_vars

\* a selection was made and emptied again: the view is unconstrained while
\* the fetch of the first change still carries its constraint
C29_Witness ==
    /\ Mounted
    /\ filters = NoFilters
    /\ nFetches = 2
    /\ \E f \in fetches : f.id = 1 /\ DOMAIN f.filters # {}
    /\ \E f \in fetches : f.id = 2 /\ f.filters = NoFilters

\* C30: a slicer shows 'All' and no filter indicator exactly when the view's
\* FilterSpec has no constraint for its column, so that the slicers with an
\* indicator are as many as the panel's active-filter count.
C30_IndicatorAgrees ==
    Mounted =>
        /\ \A c \in DOMAIN availableValues :
              (GetDisplayText(c) = "All" /\ ~HasActiveFilter(c))
                  <=> c \notin DOMAIN filters
        /\ Cardinality({c \in DOMAIN availableValues : HasActiveFilter(c)})
              = ActiveFilterCount

====
